---- MODULE Spec2Model ----
(***************************************************************************)
(* Model of convert-qml.py: the translation of a QGIS style document       *)
(* (renderer-v2 / categories / symbols / layer / prop) into a CartoCSS-like *)
(* stylesheet printed line by line on standard output.                      *)
(*                                                                          *)
(* A printed line is a record [kind, key, str, num]:                        *)
(*   diag    str = the text of an "XXX: ..." line                           *)
(*   open    str = basename            ".basename {"                        *)
(*   sel     key = attr, str = value   "  [attr="value"] {"                 *)
(*   decl    key = property, str = value (num = 0), or, for a float value,  *)
(*           num = the float in hundredths (str = "") "    key: value;"     *)
(*   endsel                            "  }"                                *)
(*   close                             "}"                                  *)
(* A value read from the document is [found, v]: None is found = FALSE.     *)
(*                                                                          *)
(* run counts the invocations of main on the document; first keeps what the *)
(* first invocation printed and how it ended, for comparison with a second. *)
(***************************************************************************)
EXTENDS Integers, Sequences, FiniteSets, TLC

VARIABLES doc, pc, out, ci, mi, exc, run, first

vars == <<doc, pc, out, ci, mi, exc, run, first>>

-----------------------------------------------------------------------------
(* Bounds of the documents explored *)

MaxCats == 2
MaxSyms == 2
MaxProps == 3

SeqsUpTo(S, n) == UNION {[1..k -> S] : k \in 0..n}

-----------------------------------------------------------------------------
(* The parsed document *)

None == [found |-> FALSE, v |-> ""]
Some(s) == [found |-> TRUE, v |-> s]

Prop(k, v) == [k |-> k, v |-> v]

Props ==
    {Prop("color", "255,0,0,255"), Prop("color_border", "0,0,0,255")}
    \cup {Prop("width-border", v) : v \in {"0.26", ""}}
    \cup {Prop("width", v) : v \in {"0.5", ""}}
    \cup {Prop("penstyle", v) : v \in {"solid", "dash", "dot", "dashdot"}}
    \cup {Prop("size", v) : v \in {"2", "1.4", "abc"}}


SymbolTypes == {"fill", "line", "marker"}
SymbolNames == {"0", "1"}
CategoryValues == {"a", "b"}
RendererTypes == {"categorizedSymbol", "singleSymbol", "graduatedSymbol"}

Categories == [symbol : SymbolNames, value : CategoryValues]

Symbols(names, layers) == [name : names, type : SymbolTypes, layer : layers]

\* the symbols of the documents of several symbols: a symbol of any kind with
\* an empty layer, or a marker with a size
SmallSymbols ==
    Symbols(SymbolNames, {<<>>})
    \cup [name : SymbolNames, type : {"marker"}, layer : {<<Prop("size", "2")>>}]

\* documents of several symbols, each with a short layer
SmallDocs ==
    UNION {
        [type : {t}, attr : {"class"},
         categories : IF t = "categorizedSymbol"
                         THEN SeqsUpTo(Categories, MaxCats) ELSE {<<>>},
         symbols : SeqsUpTo(SmallSymbols, MaxSyms)]
        : t \in RendererTypes}

\* single-symbol documents of one symbol with a long layer
DeepDocs ==
    [type : {"singleSymbol"}, attr : {"class"}, categories : {<<>>},
     symbols : {<<s>> : s \in Symbols({"0"}, SeqsUpTo(Props, MaxProps))}]

Docs == SmallDocs \cup DeepDocs

\* sys.argv[1], cut as f[:8], f[8:-4], f[-4:]
File == [prefix |-> "symbols/", stem |-> "roads", suffix |-> ".qml"]

-----------------------------------------------------------------------------
(* Printed lines *)

Line(kind, key, str, num) == [kind |-> kind, key |-> key, str |-> str, num |-> num]

Diag(text) == Line("diag", "", text, 0)
OpenLine(basename) == Line("open", "", basename, 0)
CloseLine == Line("close", "", "", 0)
Sel(attr, value) == Line("sel", attr, value, 0)
EndSel == Line("endsel", "", "", 0)
Decl(key, str) == Line("decl", key, str, 0)
DeclFloat(key, num) == Line("decl", key, "", num)

\* '{0}'.format(x) of a value read from the document
Format(x) == IF x.found THEN x.v ELSE "None"

\* truth value of a value read from the document
Truthy(x) == x.found /\ x.v # ""

-----------------------------------------------------------------------------
(* Property lookup and value translators *)

find_layer_prop_last(layer, prop) ==
    LET results == SelectSeq(layer, LAMBDA p : p.k = prop)
    IN  IF results = <<>> THEN None ELSE Some(results[Len(results)].v)

find_layer_prop(layer, prop) ==
    LET results == SelectSeq(layer, LAMBDA p : p.k = prop)
    IN  IF results = <<>> THEN None ELSE Some(results[1].v)

get_prop(layer, prop) == find_layer_prop(layer, prop)

get_prop_color(layer, prop) ==
    LET color == find_layer_prop(layer, prop)
    IN  "rgba(" \o Format(color) \o ")"

get_prop_penstyle_swapped(layer, prop) ==
    LET penstyle == find_layer_prop(layer, prop)
    IN  IF penstyle = Some("solid") THEN "none"
        ELSE IF penstyle = Some("dash") THEN "1, 1"
        ELSE IF penstyle = Some("dot") THEN "5, 2"
        ELSE "XXX"

get_prop_penstyle(layer, prop) ==
    LET penstyle == find_layer_prop(layer, prop)
    IN  IF penstyle = Some("solid") THEN "none"
        ELSE IF penstyle = Some("dash") THEN "5, 2"
        ELSE IF penstyle = Some("dot") THEN "1, 1"
        ELSE "XXX"

\* float(x): the float in hundredths, or the exception raised
float(x) ==
    IF ~x.found THEN [exc |-> "TypeError", num |-> 0]
    ELSE CASE x.v = "2"    -> [exc |-> "", num |-> 200]
           [] x.v = "1.4"  -> [exc |-> "", num |-> 140]
           [] x.v = "0.5"  -> [exc |-> "", num |-> 50]
           [] x.v = "0.26" -> [exc |-> "", num |-> 26]
           [] OTHER        -> [exc |-> "ValueError", num |-> 0]

-----------------------------------------------------------------------------
(* process_symbol: the lines printed and the exception raised, if any *)

Result(lines, e) == [lines |-> lines, exc |-> e]

SymbolFill_always_width(layer) ==
    LET color == get_prop_color(layer, "color")
        color_border == get_prop_color(layer, "color_border")
        width == get_prop(layer, "width-border")
    IN  Result(<<Decl("polygon-fill", color), Decl("line-color", color_border),
                 Decl("line-width", Format(width))>>, "")

SymbolFill(layer) ==
    LET color == get_prop_color(layer, "color")
        color_border == get_prop_color(layer, "color_border")
        width == get_prop(layer, "width-border")
    IN  Result(<<Decl("polygon-fill", color), Decl("line-color", color_border)>>
               \o (IF Truthy(width) THEN <<Decl("line-width", Format(width))>>
                                    ELSE <<>>),
               "")

SymbolLine(layer) ==
    LET color == get_prop_color(layer, "color")
        width == get_prop(layer, "width")
        penstyle == get_prop_penstyle(layer, "penstyle")
    IN  Result(<<Decl("line-color", color)>>
               \o (IF Truthy(width) THEN <<Decl("line-width", Format(width))>>
                                    ELSE <<>>)
               \o (IF penstyle # "" /\ penstyle # "none"
                      THEN <<Decl("line-dasharray", penstyle)>> ELSE <<>>),
               "")

MarkerSize_times4(layer) ==
    LET size == float(get_prop(layer, "size"))
    IN  [exc |-> size.exc, num |-> size.num * 4]

MarkerSize_default0(layer) ==
    LET size == float(get_prop(layer, "size"))
    IN  [exc |-> "", num |-> size.num * 5]

MarkerSize(layer) ==
    LET size == float(get_prop(layer, "size"))
    IN  [exc |-> size.exc, num |-> size.num * 5]

SymbolMarker(layer) ==
    LET color == get_prop_color(layer, "color")
        color_border == get_prop_color(layer, "color_border")
        size == MarkerSize(layer)
    IN  Result(<<Decl("marker-fill", color), Decl("marker-line-color", color_border)>>
               \o (IF size.exc = "" THEN <<DeclFloat("marker-width", size.num)>>
                                    ELSE <<>>),
               size.exc)

process_symbol(symbol) ==
    LET layer == symbol.layer
    IN  CASE symbol.type = "fill"   -> SymbolFill(layer)
          [] symbol.type = "line"   -> SymbolLine(layer)
          [] symbol.type = "marker" -> SymbolMarker(layer)
          [] OTHER                  -> Result(<<>>, "")

-----------------------------------------------------------------------------
(* process_file *)

RendererBranch_no_else(type) ==
    IF type = "categorizedSymbol" THEN "categorized" ELSE "single"

RendererBranch(type) ==
    IF type = "categorizedSymbol" THEN "categorized"
    ELSE IF type = "singleSymbol" THEN "single"
    ELSE "unknown"

\* renderer.findall('.//symbols//symbol[@name="{0}"]'): the matching symbols,
\* in document order
SymbolsNamed(name) == SelectSeq(doc.symbols, LAMBDA s : s.name = name)

\* renderer.findall('.//symbol')[0] of process_singleSymbol
SingleSymbol_last(symbols) == symbols[Len(symbols)]

SingleSymbol(symbols) == symbols[1]

Init ==
    /\ doc \in Docs
    /\ pc = "start"
    /\ out = <<>>
    /\ ci = 1
    /\ mi = 1
    /\ exc = ""
    /\ run = 1
    /\ first = [out |-> <<>>, pc |-> "", exc |-> ""]

\* lines 5-14: the two header lines, the parse, the renderer element
Begin ==
    /\ pc = "start"
    /\ out' = <<Diag("XXX: Processing file: " \o File.prefix \o File.stem \o File.suffix),
                OpenLine(File.stem)>>
    /\ pc' = "dispatch"
    /\ UNCHANGED <<doc, ci, mi, exc>>
    /\ UNCHANGED <<run, first>>

Categorized_no_reset ==
    /\ pc = "dispatch"
    /\ RendererBranch(doc.type) = "categorized"
    /\ pc' = "categories"
    /\ UNCHANGED <<doc, out, ci, mi, exc>>
    /\ UNCHANGED <<run, first>>

\* lines 15-17: the categorized branch is entered
Categorized ==
    /\ pc = "dispatch"
    /\ RendererBranch(doc.type) = "categorized"
    /\ pc' = "categories"
    /\ ci' = 1
    /\ mi' = 1
    /\ UNCHANGED <<doc, out, exc>>
    /\ UNCHANGED <<run, first>>

\* lines 34-37: one iteration of the inner loop, a block for one matching symbol
CategoryBlock ==
    /\ pc = "categories"
    /\ ci <= Len(doc.categories)
    /\ LET category == doc.categories[ci]
           matches == SymbolsNamed(category.symbol)
       IN  /\ mi <= Len(matches)
           /\ LET res == process_symbol(matches[mi])
              IN  IF res.exc = ""
                     THEN /\ out' = out \o <<Sel(doc.attr, category.value)>>
                                        \o res.lines \o <<EndSel>>
                          /\ mi' = mi + 1
                          /\ UNCHANGED <<pc, exc>>
                     ELSE /\ out' = out \o <<Sel(doc.attr, category.value)>>
                                        \o res.lines
                          /\ pc' = "raised"
                          /\ exc' = res.exc
                          /\ UNCHANGED mi
    /\ UNCHANGED <<doc, ci>>
    /\ UNCHANGED <<run, first>>

\* lines 29-34: the inner loop is exhausted, the outer loop moves on
CategoryNext ==
    /\ pc = "categories"
    /\ ci <= Len(doc.categories)
    /\ mi > Len(SymbolsNamed(doc.categories[ci].symbol))
    /\ ci' = ci + 1
    /\ mi' = 1
    /\ UNCHANGED <<doc, pc, out, exc>>
    /\ UNCHANGED <<run, first>>

\* line 29: the outer loop is exhausted
CategoriesDone ==
    /\ pc = "categories"
    /\ ci > Len(doc.categories)
    /\ pc' = "close"
    /\ UNCHANGED <<doc, out, ci, mi, exc>>
    /\ UNCHANGED <<run, first>>

\* lines 18-19 and process_singleSymbol
process_singleSymbol ==
    /\ pc = "dispatch"
    /\ RendererBranch(doc.type) = "single"
    /\ IF doc.symbols = <<>>
          THEN /\ pc' = "raised"
               /\ exc' = "IndexError"
               /\ UNCHANGED out
          ELSE LET res == process_symbol(SingleSymbol(doc.symbols))
               IN  /\ out' = out \o res.lines
                   /\ exc' = res.exc
                   /\ pc' = IF res.exc = "" THEN "close" ELSE "raised"
    /\ UNCHANGED <<doc, ci, mi>>
    /\ UNCHANGED <<run, first>>

\* lines 20-21
UnknownType ==
    /\ pc = "dispatch"
    /\ RendererBranch(doc.type) = "unknown"
    /\ out' = Append(out, Diag("XXX: unknown type"))
    /\ pc' = "close"
    /\ UNCHANGED <<doc, ci, mi, exc>>
    /\ UNCHANGED <<run, first>>

\* line 23
Close ==
    /\ pc = "close"
    /\ out' = Append(out, CloseLine)
    /\ pc' = "done"
    /\ UNCHANGED <<doc, ci, mi, exc>>
    /\ UNCHANGED <<run, first>>

Next ==
    \/ Begin
    \/ Categorized
    \/ CategoryBlock
    \/ CategoryNext
    \/ CategoriesDone
    \/ process_singleSymbol
    \/ UnknownType
    \/ Close

Spec == Init /\ [][Next]_vars

\* main is invoked a second time on the same file, in a new process: a new
\* standard output, no exception pending. The loop variables are not bound
\* until line 29 binds them; they are left as they were.
Rerun ==
    /\ run = 1
    /\ pc \in {"done", "raised"}
    /\ run' = 2
    /\ first' = [out |-> out, pc |-> pc, exc |-> exc]
    /\ pc' = "start"
    /\ out' = <<>>
    /\ exc' = ""
    /\ UNCHANGED <<doc, ci, mi>>

NextTwice ==
    \/ Next
    \/ Rerun

\* two invocations of main on the same document, one after the other
SpecTwice == Init /\ [][NextTwice]_vars

TypeOK ==
    /\ doc \in Docs
    /\ pc \in {"start", "dispatch", "categories", "close", "done", "raised"}
    /\ exc \in {"", "TypeError", "ValueError", "IndexError"}
    /\ (pc = "raised") = (exc # "")

-----------------------------------------------------------------------------
(* Vocabulary of the properties *)

HasKey(layer, k) == \E i \in 1..Len(layer) : layer[i].k = k

\* the value of the first record of the layer, in document order, with key k
FirstVal(layer, k) ==
    layer[CHOOSE i \in 1..Len(layer) :
            /\ layer[i].k = k
            /\ \A j \in 1..(i - 1) : layer[j].k # k].v

DeclsOf(lines) == SelectSeq(lines, LAMBDA l : l.kind = "decl")
SelsOf(lines) == SelectSeq(lines, LAMBDA l : l.kind = "sel")
KeysOf(lines) == [i \in 1..Len(lines) |-> lines[i].key]
WithKey(lines, key) == SelectSeq(lines, LAMBDA l : l.kind = "decl" /\ l.key = key)

Terminated == ~ENABLED Next

\* a single-symbol run that has called process_symbol on its first symbol:
\* the declarations printed so far are those of that symbol
SingleEmitted ==
    /\ doc.type = "singleSymbol"
    /\ doc.symbols # <<>>
    /\ pc \in {"close", "done", "raised"}

Sym == doc.symbols[1]
Body == DeclsOf(out)

Mandatory(type) ==
    CASE type = "fill"   -> {"color", "color_border"}
      [] type = "line"   -> {"color"}
      [] type = "marker" -> {"color", "color_border", "size"}

\* the declaration a source key of a symbol kind is translated to
DeclKey(type, k) ==
    CASE type = "fill" /\ k = "color"          -> "polygon-fill"
      [] type = "fill" /\ k = "color_border"   -> "line-color"
      [] type = "fill" /\ k = "width-border"   -> "line-width"
      [] type = "line" /\ k = "color"          -> "line-color"
      [] type = "line" /\ k = "width"          -> "line-width"
      [] type = "line" /\ k = "penstyle"       -> "line-dasharray"
      [] type = "marker" /\ k = "color"        -> "marker-fill"
      [] type = "marker" /\ k = "color_border" -> "marker-line-color"
      [] type = "marker" /\ k = "size"         -> "marker-width"

MandatoryPresent(s) == \A k \in Mandatory(s.type) : HasKey(s.layer, k)

\* the strings of the documents that are numbers, with their value in hundredths
SizeValue == ("2" :> 200) @@ ("1.4" :> 140)

NumericSize(s) ==
    /\ HasKey(s.layer, "size")
    /\ FirstVal(s.layer, "size") \in DOMAIN SizeValue

HeaderLine == Diag("XXX: Processing file: symbols/roads.qml")

-----------------------------------------------------------------------------
\* C1: a categorized document that has been translated has exactly one
\* selector block per category, the k-th block carrying the renderer's attr
\* and the value of the k-th category.
C1_OneBlockPerCategory ==
    (doc.type = "categorizedSymbol" /\ pc = "done") =>
        LET sels == SelsOf(out)
        IN  /\ Len(sels) = Len(doc.categories)
            /\ \A k \in 1..Len(sels) :
                   /\ sels[k].key = doc.attr
                   /\ sels[k].str = doc.categories[k].value

\* C2: a categorized document with a category whose symbol name matches no
\* symbol never completes successfully.
C2_MissingSymbolFails ==
    (/\ doc.type = "categorizedSymbol"
     /\ \E k \in 1..Len(doc.categories) :
            \A i \in 1..Len(doc.symbols) :
                doc.symbols[i].name # doc.categories[k].symbol)
        => pc # "done"

\* C3: when a key mandatory for the kind of the emitted symbol is absent from
\* its layer, the emission has raised an error and no declaration for that
\* key has been printed.
C3_MissingPropertyError ==
    SingleEmitted =>
        \A k \in Mandatory(Sym.type) :
            ~HasKey(Sym.layer, k) =>
                /\ pc = "raised"
                /\ WithKey(out, DeclKey(Sym.type, k)) = <<>>

\* C4: an optional key absent from the layer of the emitted symbol
\* (width-border for fill; width and penstyle for line) has no declaration.
C4_AbsentOptionalOmitted ==
    SingleEmitted =>
        /\ (Sym.type = "fill" /\ ~HasKey(Sym.layer, "width-border"))
               => WithKey(out, "line-width") = <<>>
        /\ (Sym.type = "line" /\ ~HasKey(Sym.layer, "width"))
               => WithKey(out, "line-width") = <<>>
        /\ (Sym.type = "line" /\ ~HasKey(Sym.layer, "penstyle"))
               => WithKey(out, "line-dasharray") = <<>>

\* the declarations of symbol s, as a sequence of keys, follow the table
TableOrder(s, keys) ==
    CASE s.type = "fill" ->
            /\ keys \in {<<"polygon-fill", "line-color">>,
                         <<"polygon-fill", "line-color", "line-width">>}
            /\ Len(keys) = 3 => HasKey(s.layer, "width-border")
      [] s.type = "line" ->
            \E w \in {<<>>, <<"line-width">>} :
            \E d \in {<<>>, <<"line-dasharray">>} :
                /\ keys = <<"line-color">> \o w \o d
                /\ w # <<>> => HasKey(s.layer, "width")
                /\ d # <<>> => ~(/\ HasKey(s.layer, "penstyle")
                                 /\ FirstVal(s.layer, "penstyle") = "solid")
      [] s.type = "marker" ->
            keys = <<"marker-fill", "marker-line-color", "marker-width">>

\* C5 as stated: for every emitted symbol whose mandatory keys are present,
\* the declarations are those of its kind in the order of the table.
C5_TableOrder_AsStated ==
    (SingleEmitted /\ MandatoryPresent(Sym)) => TableOrder(Sym, KeysOf(Body))

\* C5: for every emitted symbol whose mandatory keys are present and, for a
\* marker, whose size is a number, the declarations are those of its kind in
\* the order of the table; a fill symbol without width-border has exactly two.
C5_TableOrder ==
    (/\ SingleEmitted
     /\ MandatoryPresent(Sym)
     /\ Sym.type = "marker" => NumericSize(Sym))
        => TableOrder(Sym, KeysOf(Body))

C5_Witness ==
    /\ SingleEmitted
    /\ pc = "done"
    /\ Sym.type = "fill"
    /\ MandatoryPresent(Sym)
    /\ ~HasKey(Sym.layer, "width-border")
    /\ KeysOf(Body) = <<"polygon-fill", "line-color">>

\* C6: for an emitted line symbol with a penstyle property, no error is raised
\* and the line-dasharray declarations are determined by the penstyle value:
\* none for "solid", one of value "5, 2" for "dash", one of value "1, 1" for
\* "dot", one of value "XXX" for any other value.
C6_DashPattern ==
    (SingleEmitted /\ Sym.type = "line" /\ HasKey(Sym.layer, "penstyle")) =>
        LET v == FirstVal(Sym.layer, "penstyle")
            dash == WithKey(out, "line-dasharray")
        IN  /\ pc # "raised"
            /\ Terminated => pc = "done"
            /\ CASE v = "solid" -> dash = <<>>
                 [] v = "dash"  -> dash = <<Decl("line-dasharray", "5, 2")>>
                 [] v = "dot"   -> dash = <<Decl("line-dasharray", "1, 1")>>
                 [] OTHER       -> dash = <<Decl("line-dasharray", "XXX")>>

C6_Witness ==
    /\ SingleEmitted
    /\ pc = "done"
    /\ Sym.type = "line"
    /\ HasKey(Sym.layer, "penstyle")
    /\ FirstVal(Sym.layer, "penstyle") = "dashdot"
    /\ Decl("line-dasharray", "XXX") = out[Len(out) - 1]

\* C7: for a document whose renderer type is neither categorizedSymbol nor
\* singleSymbol no error is raised, the run ends as a success, no selector
\* block and no declaration is ever printed, and the finished output is the
\* opened outer block, the 'unknown type' diagnostic and the closing line.
C7_UnknownType ==
    (doc.type \notin {"categorizedSymbol", "singleSymbol"}) =>
        /\ pc # "raised"
        /\ Terminated => pc = "done"
        /\ \A i \in 1..Len(out) : out[i].kind \notin {"sel", "endsel", "decl"}
        /\ pc = "done" =>
               out = <<HeaderLine, OpenLine("roads"),
                       Diag("XXX: unknown type"), CloseLine>>

C7_Witness ==
    /\ doc.type = "graduatedSymbol"
    /\ doc.symbols # <<>>
    /\ pc = "done"
    /\ Diag("XXX: unknown type") = out[3]

BadSize(s) ==
    /\ s.type = "marker"
    /\ ~NumericSize(s)

\* the run is about to emit a marker symbol whose size is absent or not a number
EmittingBadSize ==
    \/ /\ pc = "dispatch"
       /\ doc.type = "singleSymbol"
       /\ doc.symbols # <<>>
       /\ BadSize(doc.symbols[1])
    \/ /\ pc = "categories"
       /\ ci <= Len(doc.categories)
       /\ LET matches == SelectSeq(doc.symbols,
                             LAMBDA s : s.name = doc.categories[ci].symbol)
          IN  mi <= Len(matches) /\ BadSize(matches[mi])

\* C9: emitting a marker symbol whose size is absent or not a number raises a
\* TypeError or ValueError without printing a marker-width declaration, and a
\* run that has raised takes no further step: it prints no later block and
\* never ends as a success.
C9_BadSizeAborts ==
    [][/\ pc # "raised"
       /\ EmittingBadSize =>
              /\ pc' = "raised"
              /\ exc' \in {"TypeError", "ValueError"}
              /\ WithKey(out', "marker-width") = WithKey(out, "marker-width")
              /\ out'[Len(out')].kind # "close"]_vars

C9_Witness ==
    /\ doc.type = "categorizedSymbol"
    /\ pc = "raised"
    /\ exc \in {"TypeError", "ValueError"}
    /\ ci < Len(doc.categories)
    /\ \E i \in 1..Len(doc.symbols) :
           doc.symbols[i].name = doc.categories[ci + 1].symbol
    /\ out[Len(out)].key = "marker-line-color"

\* C10: for an emitted marker symbol whose size is a number, exactly one
\* marker-width declaration is printed and its value is 5 times the size.
C10_MarkerWidth ==
    (SingleEmitted /\ Sym.type = "marker" /\ NumericSize(Sym)) =>
        WithKey(out, "marker-width") =
            <<DeclFloat("marker-width", 5 * SizeValue[FirstVal(Sym.layer, "size")])>>

C10_Witness ==
    /\ SingleEmitted
    /\ pc = "done"
    /\ Sym.type = "marker"
    /\ Len(Sym.layer) = 3
    /\ HasKey(Sym.layer, "size")
    /\ FirstVal(Sym.layer, "size") = "2"
    /\ out[Len(out) - 1] = DeclFloat("marker-width", 1000)

IsPrefix(a, b) == Len(a) <= Len(b) /\ a = SubSeq(b, 1, Len(a))

LookupKeys ==
    {"color", "color_border", "width-border", "width", "penstyle", "size", "k"}

\* C12: for every layer of the document and every key, find_layer_prop
\* returns the value of the first record with exactly that key, and None when
\* there is none; an emitted line symbol shows it: no error is raised, and
\* its line-width declaration carries the value of the first width record
\* (none is printed when that value is empty or no record has the key).
C12_FirstMatch ==
    /\ \A i \in 1..Len(doc.symbols) : \A k \in LookupKeys :
           LET layer == doc.symbols[i].layer
           IN  find_layer_prop(layer, k) =
                   IF HasKey(layer, k) THEN Some(FirstVal(layer, k)) ELSE None
    /\ (SingleEmitted /\ Sym.type = "line") =>
           /\ pc # "raised"
           /\ WithKey(out, "line-width") =
                  IF HasKey(Sym.layer, "width") /\ FirstVal(Sym.layer, "width") # ""
                     THEN <<Decl("line-width", FirstVal(Sym.layer, "width"))>>
                     ELSE <<>>

C12_Witness ==
    /\ SingleEmitted
    /\ pc = "done"
    /\ Sym.type = "line"
    /\ Len(Sym.layer) >= 2
    /\ Sym.layer[1] = Prop("width", "0.5")
    /\ Sym.layer[2] = Prop("width", "")
    /\ WithKey(out, "line-width") = <<Decl("line-width", "0.5")>>

====
